---- MODULE Spec2Model ----
(***************************************************************************)
(* Model of the wikifolio trading API client                               *)
(* (src/wikifolioTradingAPI/wikifolio.py, class WikifolioTradingAPI).      *)
(*                                                                         *)
(* One client object, used by the callers in Threads.  Every step of the  *)
(* model is one blocking HTTP round trip of a method together with the    *)
(* code that runs up to the next round trip (or up to the return/raise).  *)
(* The remote venue is the environment: it answers every request with any *)
(* status and any body of the endpoint's shape.                           *)
(***************************************************************************)
EXTENDS Integers, Sequences, FiniteSets, TLC

\* ------------------------------------------------------------------ bounds
MaxPages == 2        \* largest totalPages the venue reports
MaxRequests == 3     \* cap on the page requests of one listing invocation
MaxQuotes == 2       \* cap on the quotes the venue issues

Threads == {1, 2}    \* callers sharing the one client object
Callers == {1}       \* the callers of the sequential specification

\* ------------------------------------------------- python values and dicts
\* Optional[X]: None is the empty tuple, a supplied value v is <<v>>.
None == <<>>
Some(v) == <<v>>

\* A dict is a function from its keys; {} is the function with no key.
EmptyDict == [k \in {} |-> k]
HasKey(d, k) == k \in DOMAIN d
DictDel(d, k) == [x \in (DOMAIN d) \ {k} |-> d[x]]
DictSet(d, k, v) == [x \in (DOMAIN d) \cup {k} |-> IF x = k THEN v ELSE d[x]]

\* Truth value of an Optional[str] / Optional[float] in an `if`.
TruthyStr(o) == o # None /\ o[1] # ""
TruthyNum(o) == o # None /\ o[1] # 0

\* str.lower(), on strings written as tuples of one-character strings.
LowerChar(c) ==
    CASE c = "B" -> "b" [] c = "U" -> "u" [] c = "Y" -> "y"
      [] c = "S" -> "s" [] c = "E" -> "e" [] c = "L" -> "l"
      [] c = "H" -> "h" [] c = "O" -> "o" [] c = "D" -> "d"
      [] OTHER -> c
str_lower(s) == [i \in DOMAIN s |-> LowerChar(s[i])]

BUY == <<"b", "u", "y">>
SELL == <<"s", "e", "l", "l">>

\* datetime.date.strftime('%Y-%m-%d'): zero-padded decimal digits.
Digit(n) == <<"0", "1", "2", "3", "4", "5", "6", "7", "8", "9">>[n + 1]
Pad2(n) == <<Digit((n \div 10) % 10), Digit(n % 10)>>
Pad4(n) == <<Digit((n \div 1000) % 10), Digit((n \div 100) % 10)>> \o Pad2(n)
strftime(d) == Pad4(d.year) \o <<"-">> \o Pad2(d.month) \o <<"-">> \o Pad2(d.day)

\* ------------------------------------------------------------ record types
WikifolioListItemFields == {"wikifolioSymbol", "resourceLink"}
WikifolioListItemRequired == {}

UnderlyingFields == {"underlying", "resourceLink"}
UnderlyingRequired == {}

OrderStatusResponseFields ==
    {"orderId", "orderStatus", "orderType", "amount", "creationDate",
     "wikifolioSymbol", "executionPrice", "statusDate", "reason", "stop", "limit"}
OrderStatusResponseRequired ==
    {"orderId", "orderStatus", "orderType", "amount", "creationDate"}

\* dacite.from_dict on a well-formed dict: the class's fields only, a missing
\* optional field is None, keys the class does not declare are ignored.
from_dict(fields, required, data) ==
    [f \in fields |->
        IF f \in required THEN data[f]
        ELSE IF HasKey(data, f) THEN Some(data[f]) ELSE None]

\* [from_dict(data_class=C, data=x) for x in list]
ConvertAll(fields, required, list) ==
    [i \in DOMAIN list |-> from_dict(fields, required, list[i])]

\* ------------------------------------------------------- the venue's data
Tokens == {"tokA", "tokB"}

WL1 == ("wikifolioSymbol" :> "WF000A") @@ ("resourceLink" :> "/v1/wikifolios/WF000A")
WL2 == ("wikifolioSymbol" :> "WF000B")

UL1 == ("underlying" :> "DE0001") @@ ("resourceLink" :> "/v1/underlyings/DE0001")
UL2 == ("underlying" :> "DE0002")

OR1 == ("orderId" :> "ord-1") @@ ("orderStatus" :> "Active") @@ ("orderType" :> "BuyLimit")
       @@ ("amount" :> 10) @@ ("creationDate" :> "2024-01-05") @@ ("limit" :> 12)
OR2 == ("orderId" :> "ord-2") @@ ("orderStatus" :> "Executed") @@ ("orderType" :> "SellLimit")
       @@ ("amount" :> 5) @@ ("creationDate" :> "2024-01-06") @@ ("executionPrice" :> 7)
       @@ ("validUntilDate" :> "2024-02-01")
\* Open orders as GET /limitorders/{orderId} reports them: with the date the
\* order is valid until, and without a stop price, with a stop price of zero
\* and with a positive one.
OR3 == OR1 @@ ("validUntilDate" :> <<"2", "0", "2", "4", "-", "0", "2", "-", "0", "1">>)
OR4 == OR3 @@ ("stop" :> 0)
OR5 == OR3 @@ ("stop" :> 5)
OrderBodies == {OR1, OR2, OR3, OR4, OR5}

\* The `results` lists a page can carry: empty, one item, two items in an
\* order that is not the order of the other page (so a reordering shows) and
\* repeating an item of it (so a deduplication shows).
PageResults(o) ==
    CASE o = "list_wikifolios" -> {<<>>, <<WL1>>, <<WL2, WL1>>}
      [] o = "list_wikifolio_underlyings" -> {<<>>, <<UL1>>, <<UL2, UL1>>}
      [] o = "list_wikifolio_orders" -> {<<>>, <<OR1>>, <<OR2, OR1>>}

StatusCodes == {200, 404}

\* The responses of a paginated endpoint: a success with any page body, or a
\* failure, whose body the client never reads.
PageBody(pn, tp, rs) == ("pageNumber" :> pn) @@ ("totalPages" :> tp) @@ ("results" :> rs)
PageResponses(o) ==
    {[status |-> 200, body |-> PageBody(pn, tp, rs)] :
        pn \in 0..MaxPages, tp \in 0..MaxPages, rs \in PageResults(o)}
    \cup {[status |-> s, body |-> PageBody(0, 0, <<>>)] : s \in StatusCodes \ {200}}

NoResponse == [status |-> 0, body |-> EmptyDict]

\* --------------------------------------------------------------- requests
AuthHeaders(tok) == ("accept" :> "application/json") @@ ("sessionToken" :> tok)

Request(method, url, headers, params, json) ==
    [method |-> method, url |-> url, headers |-> headers, params |-> params, json |-> json]

\* A variant that lets the 4xx statuses through.
raise_for_status_5xx(resp) == resp.status >= 500 /\ resp.status < 600

\* Response.raise_for_status(): raises HTTPError for a 4xx/5xx status.
raise_for_status(resp) == resp.status >= 400 /\ resp.status < 600

\* --------------------------------------------------------------- outcomes
Running == [kind |-> "none", type |-> "", value |-> <<>>, status |-> 0, url |-> ""]
ReturnList(l) == [kind |-> "return", type |-> "list", value |-> l, status |-> 0, url |-> ""]
ReturnStr(s) == [kind |-> "return", type |-> "str", value |-> <<s>>, status |-> 0, url |-> ""]
ReturnNone == [kind |-> "return", type |-> "NoneType", value |-> <<>>, status |-> 0, url |-> ""]
\* A variant that carries nothing of the failed response.
HTTPError_Bare(resp, url) ==
    [kind |-> "raise", type |-> "HTTPError", value |-> <<>>, status |-> 0, url |-> ""]

\* The HTTPError raised by raise_for_status carries the failed response.
HTTPError(resp, url) ==
    [kind |-> "raise", type |-> "HTTPError", value |-> <<>>, status |-> resp.status, url |-> url]
KeyError == [kind |-> "raise", type |-> "KeyError", value |-> <<>>, status |-> 0, url |-> ""]

\* ------------------------------------------------------------------ state
VARIABLES
    client,        \* "new" before __post_init__, then "ready" or "failed"
    sessionToken,  \* self.sessionToken: None until __post_init__ stores it
    ctorReqs,      \* the requests __post_init__ issued
    ctorOutcome,   \* how __post_init__ ended
    ctorResp,      \* venue: the response to the request of __post_init__
    terminated,    \* venue: the tokens a successful DELETE /sessions ended
    nextQuote,     \* venue: number of quotes issued so far
    committed,     \* venue: the quoteIds of the commit requests received, in order
    pc,            \* per caller: "idle", "paging", "commit" or "done"
    op,            \* per caller: the method being run
    args,          \* per caller: the arguments of the invocation
    headers,       \* per caller: local `headers`
    params,        \* per caller: local `params`
    acc,           \* per caller: local list_wikifolios / list_underlyings / list_orders
    r,             \* per caller: local `r`, the last response
    reqs,          \* per caller: the requests this invocation issued, in order
    obs,           \* per caller: what the venue answered in this invocation: the
                   \* results (bodies) of the successful responses, the first
                   \* totalPages, whether every page kept it and echoed the
                   \* requested pageNumber, and which request failed
    outcome        \* per caller: the return value or the exception raised

globals == <<client, sessionToken, ctorReqs, ctorOutcome, ctorResp, terminated>>
locals == <<headers, params, acc, r>>
vars == <<client, sessionToken, ctorReqs, ctorOutcome, ctorResp, terminated, nextQuote,
         committed,
          pc, op, args, headers, params, acc, r, reqs, obs, outcome>>

NoArgs == [status |-> None, side |-> <<>>, stopPrice |-> None]
NoObs == [served |-> <<>>, k |-> -1, sameTotal |-> TRUE, inStep |-> TRUE, noLag |-> TRUE,
          failedAt |-> 0]

Init ==
    /\ client = "new"
    /\ sessionToken = None
    /\ ctorReqs = <<>>
    /\ ctorOutcome = Running
    /\ ctorResp = NoResponse
    /\ terminated = {}
    /\ nextQuote = 0
    /\ committed = <<>>
    /\ pc = [t \in Threads |-> "idle"]
    /\ op = [t \in Threads |-> ""]
    /\ args = [t \in Threads |-> NoArgs]
    /\ headers = [t \in Threads |-> EmptyDict]
    /\ params = [t \in Threads |-> EmptyDict]
    /\ acc = [t \in Threads |-> <<>>]
    /\ r = [t \in Threads |-> NoResponse]
    /\ reqs = [t \in Threads |-> <<>>]
    /\ obs = [t \in Threads |-> NoObs]
    /\ outcome = [t \in Threads |-> Running]

\* ------------------------------------------------------------ construction
CredHeaders ==
    ("accept" :> "application/json") @@ ("clientApiKey" :> "client-key")
    @@ ("userApiKey" :> "user-key")

post_init ==
    /\ client = "new"
    /\ \E s \in StatusCodes, tok \in Tokens :
         LET resp == [status |-> s, body |-> ("sessionToken" :> tok)]
             url == "/v1/sessions"
         IN  /\ ctorReqs' = Append(ctorReqs, Request("POST", url, CredHeaders, EmptyDict, EmptyDict))
             /\ ctorResp' = resp
             /\ IF raise_for_status(resp)
                   THEN /\ client' = "failed"
                        /\ ctorOutcome' = HTTPError(resp, url)
                        /\ UNCHANGED sessionToken
                   ELSE /\ client' = "ready"
                        /\ ctorOutcome' = ReturnNone
                        /\ sessionToken' = Some(resp.body["sessionToken"])
    /\ UNCHANGED <<terminated, nextQuote, committed, pc, op, args, headers, params, acc, r,
                   reqs, obs, outcome>>

\* ------------------------------------------------- entering and leaving
\* A caller can invoke a method once the object exists.
CanCall(t) == client = "ready" /\ pc[t] = "idle"

Enter(t, o, a) ==
    /\ op' = [op EXCEPT ![t] = o]
    /\ args' = [args EXCEPT ![t] = a]

\* The frame of the invocation is gone: its locals no longer exist.
Leave(t, out) ==
    /\ pc' = [pc EXCEPT ![t] = "done"]
    /\ outcome' = [outcome EXCEPT ![t] = out]
    /\ headers' = [headers EXCEPT ![t] = EmptyDict]
    /\ params' = [params EXCEPT ![t] = EmptyDict]
    /\ acc' = [acc EXCEPT ![t] = <<>>]
    /\ r' = [r EXCEPT ![t] = NoResponse]

Send(t, req) == reqs' = [reqs EXCEPT ![t] = Append(reqs[t], req)]

\* The caller takes the outcome; the next invocation starts from scratch.
Return(t) ==
    /\ pc[t] = "done"
    /\ pc' = [pc EXCEPT ![t] = "idle"]
    /\ op' = [op EXCEPT ![t] = ""]
    /\ args' = [args EXCEPT ![t] = NoArgs]
    /\ reqs' = [reqs EXCEPT ![t] = <<>>]
    /\ obs' = [obs EXCEPT ![t] = NoObs]
    /\ outcome' = [outcome EXCEPT ![t] = Running]
    /\ UNCHANGED <<globals, nextQuote, committed, locals>>

\* -------------------------------------------------------------- pagination
ListUrl(o) ==
    CASE o = "list_wikifolios" -> "/v1/wikifolios"
      [] o = "list_wikifolio_underlyings" -> "/v1/wikifolios/{wikifolioSymbol}/underlyings"
      [] o = "list_wikifolio_orders" -> "/v1/wikifolios/{wikifolioSymbol}/orders"

ItemFields(o) ==
    CASE o = "list_wikifolios" -> WikifolioListItemFields
      [] o = "list_wikifolio_underlyings" -> UnderlyingFields
      [] o = "list_wikifolio_orders" -> OrderStatusResponseFields

ItemRequired(o) ==
    CASE o = "list_wikifolios" -> WikifolioListItemRequired
      [] o = "list_wikifolio_underlyings" -> UnderlyingRequired
      [] o = "list_wikifolio_orders" -> OrderStatusResponseRequired

\* Variants of the loop condition: one that stops a page early, one that goes
\* on when pageNumber has reached totalPages.
MorePages_StopsEarly(resp) == resp.body["pageNumber"] + 1 < resp.body["totalPages"]
MorePages_Inclusive(resp) == resp.body["pageNumber"] <= resp.body["totalPages"]

\* while r.json()['pageNumber'] < r.json()['totalPages']
MorePages(resp) == resp.body["pageNumber"] < resp.body["totalPages"]

\* list += r.json()['results']
Accumulate(a, resp) == a \o resp.body["results"]

\* What the venue did in this invocation, recorded as the responses arrive.
Observe(ob, page, resp) ==
    IF resp.status >= 400
      THEN [ob EXCEPT !.failedAt = page]
      ELSE LET k == IF ob.k = -1 THEN resp.body["totalPages"] ELSE ob.k
           IN  [served |-> Append(ob.served, resp.body["results"]),
                k |-> k,
                sameTotal |-> ob.sameTotal /\ resp.body["totalPages"] = k,
                inStep |-> ob.inStep /\ resp.body["pageNumber"] = page,
                noLag |-> ob.noLag /\ resp.body["pageNumber"] >= page,
                failedAt |-> ob.failedAt]

\* requests.get(url, headers=headers, params=prm) and the code after it, up
\* to the next request, the return or the raise.
GetPage(t, o, h, prm, a) ==
    \E resp \in PageResponses(o) :
        /\ Send(t, Request("GET", ListUrl(o), h, prm, EmptyDict))
        /\ obs' = [obs EXCEPT ![t] = Observe(obs[t], prm["pageNumber"], resp)]
        /\ IF raise_for_status(resp)
             THEN Leave(t, HTTPError(resp, ListUrl(o)))
             ELSE IF MorePages(resp)
               THEN /\ pc' = [pc EXCEPT ![t] = "paging"]
                    /\ headers' = [headers EXCEPT ![t] = h]
                    /\ params' = [params EXCEPT ![t] = prm]
                    /\ acc' = [acc EXCEPT ![t] = Accumulate(a, resp)]
                    /\ r' = [r EXCEPT ![t] = resp]
                    /\ UNCHANGED outcome
               ELSE Leave(t, ReturnList(ConvertAll(ItemFields(o), ItemRequired(o),
                                                   Accumulate(a, resp))))

list_wikifolios(t) ==
    /\ CanCall(t)
    /\ Enter(t, "list_wikifolios", NoArgs)
    /\ GetPage(t, "list_wikifolios", AuthHeaders(sessionToken[1]), "pageNumber" :> 1, <<>>)
    /\ UNCHANGED <<globals, nextQuote, committed>>

list_wikifolio_underlyings(t) ==
    /\ CanCall(t)
    /\ Enter(t, "list_wikifolio_underlyings", NoArgs)
    /\ GetPage(t, "list_wikifolio_underlyings", AuthHeaders(sessionToken[1]), "pageNumber" :> 1, <<>>)
    /\ UNCHANGED <<globals, nextQuote, committed>>

OrderStatuses ==
    {"Inactive", "Waiting", "Active", "Evaluating", "Executing",
     "RequestingExecutionInformation", "PartiallyExecutedActive", "Executed",
     "PartiallyExecutedExecuted", "Deleted", "DeleteRequested", "Updated",
     "Obsolete", "Error", "Rejected", "Undone", "Abandoned"}

\* The status arguments a caller passes: none, the empty string, two of the
\* venue's names, a name in the wrong case and a name the venue does not have.
StatusInputs == {None, Some(""), Some("Active"), Some("Executed"), Some("active"),
                 Some("NotARealStatus")}

list_wikifolio_orders(t) ==
    /\ CanCall(t)
    /\ \E status \in StatusInputs :
         LET o == "list_wikifolio_orders"
             h == AuthHeaders(sessionToken[1])
             p0 == "pageNumber" :> 1
             a == [NoArgs EXCEPT !.status = status]
         IN  /\ Enter(t, o, a)
             /\ IF TruthyStr(status)
                   THEN IF status[1] \in OrderStatuses
                     THEN GetPage(t, o, h, DictSet(p0, "status", status[1]), <<>>)
                     ELSE \* del params['status']
                          IF HasKey(p0, "status")
                            THEN GetPage(t, o, h, DictDel(p0, "status"), <<>>)
                            ELSE /\ Leave(t, KeyError)
                                 /\ UNCHANGED <<reqs, obs>>
                   ELSE GetPage(t, o, h, p0, <<>>)
    /\ UNCHANGED <<globals, nextQuote, committed>>

\* A variant whose page counter belongs to the client, not to the invocation:
\* every page request of every caller advances it.
next_page_SharedCounter(t) ==
    /\ pc[t] = "paging"
    /\ Len(reqs[t]) < MaxRequests
    /\ GetPage(t, op[t], headers[t],
               [params[t] EXCEPT !["pageNumber"] = Len(reqs[1]) + Len(reqs[2]) + 1], acc[t])
    /\ UNCHANGED <<globals, nextQuote, committed, op, args>>

\* A variant that builds the parameters of the next page anew, from the page
\* number alone.
next_page_DropsFilter(t) ==
    /\ pc[t] = "paging"
    /\ Len(reqs[t]) < MaxRequests
    /\ GetPage(t, op[t], headers[t], "pageNumber" :> params[t]["pageNumber"] + 1, acc[t])
    /\ UNCHANGED <<globals, nextQuote, committed, op, args>>

\* One more turn of the while loop of the listing method the caller is in.
next_page(t) ==
    /\ pc[t] = "paging"
    /\ Len(reqs[t]) < MaxRequests
    /\ GetPage(t, op[t], headers[t],
               [params[t] EXCEPT !["pageNumber"] = @ + 1], acc[t])
    /\ UNCHANGED <<globals, nextQuote, committed, op, args>>

\* ------------------------------------------------- single-request methods
\* What the venue did in an invocation that is not a listing.
ObserveCall(ob, n, resp) ==
    IF resp.status >= 400
      THEN [ob EXCEPT !.failedAt = n]
      ELSE [ob EXCEPT !.served = Append(@, resp.body)]

\* The last request of a method: r.raise_for_status(), then the return.
LastCall(t, req, resp, out) ==
    /\ Send(t, req)
    /\ obs' = [obs EXCEPT ![t] = ObserveCall(obs[t], Len(reqs[t]) + 1, resp)]
    /\ IF raise_for_status(resp)
         THEN Leave(t, HTTPError(resp, req.url))
         ELSE Leave(t, out)

NoContent == {[status |-> s, body |-> EmptyDict] : s \in StatusCodes}

\* A variant that blanks the stored token once the venue has ended the session.
logout_ClearsToken(t) ==
    /\ CanCall(t)
    /\ Enter(t, "logout", NoArgs)
    /\ \E resp \in NoContent :
         /\ LastCall(t, Request("DELETE", "/v1/sessions", AuthHeaders(sessionToken[1]),
                                EmptyDict, EmptyDict), resp, ReturnNone)
         /\ terminated' = IF resp.status < 400 THEN terminated \cup {sessionToken[1]}
                          ELSE terminated
         /\ sessionToken' = IF resp.status < 400 THEN Some("") ELSE sessionToken
    /\ UNCHANGED <<client, ctorReqs, ctorOutcome, ctorResp, nextQuote, committed>>

logout(t) ==
    /\ CanCall(t)
    /\ Enter(t, "logout", NoArgs)
    /\ \E resp \in NoContent :
         /\ LastCall(t, Request("DELETE", "/v1/sessions", AuthHeaders(sessionToken[1]),
                                EmptyDict, EmptyDict), resp, ReturnNone)
         /\ terminated' = IF resp.status < 400 THEN terminated \cup {sessionToken[1]}
                          ELSE terminated
    /\ UNCHANGED <<client, sessionToken, ctorReqs, ctorOutcome, ctorResp, nextQuote, committed>>

PositionFields == {"quantity", "underlying", "averagePurchasePrice"}
PositionRequired == {"quantity"}
WikifolioFields ==
    {"cashAccountCurrentBalance", "totalValue", "wikifolioSymbol", "bidPrice",
     "askPrice", "priceDate", "baseCurrency", "positions"}
WikifolioRequired == {"cashAccountCurrentBalance", "totalValue"}

\* from_dict(data_class=Wikifolio, ...): positions is a list of Position,
\* empty when the body has none.
from_dict_Wikifolio(data) ==
    from_dict(WikifolioFields \ {"positions"}, WikifolioRequired, data) @@
    ("positions" :> IF HasKey(data, "positions")
                      THEN ConvertAll(PositionFields, PositionRequired, data["positions"])
                      ELSE <<>>)

ReturnObj(type, x) == [kind |-> "return", type |-> type, value |-> <<x>>, status |-> 0, url |-> ""]

WF1 == ("cashAccountCurrentBalance" :> 100) @@ ("totalValue" :> 250)
       @@ ("wikifolioSymbol" :> "WF000A")
       @@ ("positions" :> <<("quantity" :> 3) @@ ("underlying" :> "DE0001")>>)
WF2 == ("cashAccountCurrentBalance" :> 0) @@ ("totalValue" :> 0)

get_wikifolio(t) ==
    /\ CanCall(t)
    /\ Enter(t, "get_wikifolio", NoArgs)
    /\ \E s \in StatusCodes, b \in {WF1, WF2} :
         LET resp == [status |-> s, body |-> b]
         IN  LastCall(t, Request("GET", "/v1/wikifolios/{wikifolioSymbol}",
                                 AuthHeaders(sessionToken[1]), EmptyDict, EmptyDict),
                      resp, ReturnObj("Wikifolio", from_dict_Wikifolio(resp.body)))
    /\ UNCHANGED <<globals, nextQuote, committed>>

get_limit_order(t) ==
    /\ CanCall(t)
    /\ Enter(t, "get_limit_order", NoArgs)
    /\ \E s \in StatusCodes, b \in OrderBodies :
         LET resp == [status |-> s, body |-> b]
         IN  LastCall(t, Request("GET", "/v1/limitorders/{orderId}",
                                 AuthHeaders(sessionToken[1]), EmptyDict, EmptyDict),
                      resp, ReturnObj("OrderStatusResponse",
                                      from_dict(OrderStatusResponseFields,
                                                OrderStatusResponseRequired, resp.body)))
    /\ UNCHANGED <<globals, nextQuote, committed>>

delete_limit_order(t) ==
    /\ CanCall(t)
    /\ Enter(t, "delete_limit_order", NoArgs)
    /\ \E resp \in NoContent :
         LastCall(t, Request("DELETE", "/v1/limitorders/{orderId}",
                             AuthHeaders(sessionToken[1]), EmptyDict, EmptyDict),
                  resp, ReturnNone)
    /\ UNCHANGED <<globals, nextQuote, committed>>

\* --------------------------------------------------------------- orders
\* The arguments a caller passes.
SideInputs == {<<"b", "u", "y">>, <<"B", "U", "Y">>, <<"S", "e", "l", "l">>,
               <<"s", "e", "l", "l">>, <<"h", "o", "l", "d">>, <<>>}
StopPriceInputs == {None, Some(0), Some(5)}
ValidUntil == [year |-> 2024, month |-> 2, day |-> 1]
OrderIds == {"ord-1", "ord-2"}

\* if side not in ['buy', 'sell']
InvalidSide(side) == side \notin {BUY, SELL}

\* if side == 'sell' and stopPrice
SellWithStop(side, stopPrice) == side = SELL /\ TruthyNum(stopPrice)

\* The if/elif chain that binds orderType in place_limit_order.
LimitOrderType(side, stopPrice) ==
    IF TruthyNum(stopPrice) /\ side = BUY THEN "BuyStopLimit"
    ELSE IF side = BUY THEN "BuyLimit"
    ELSE IF side = SELL THEN "SellLimit"
    ELSE "<unbound>"

\* The if/elif chain that binds orderType in place_quote_order.
QuoteOrderType(side) ==
    IF side = BUY THEN "Buy"
    ELSE IF side = SELL THEN "Sell"
    ELSE "<unbound>"

\* A variant that adds every stopPrice that is not None, zero included.
LimitOrderData_AnyStop(orderType, stopPrice) ==
    LET data == ("wikifolioSymbol" :> "WF000A") @@ ("underlying" :> "DE0001")
                @@ ("amount" :> 10) @@ ("limitPrice" :> 12)
                @@ ("validUntilDate" :> strftime(ValidUntil))
                @@ ("orderType" :> orderType)
    IN  IF stopPrice # None THEN DictSet(data, "stopPrice", stopPrice[1]) ELSE data

\* data = {...}; if stopPrice: data['stopPrice'] = stopPrice
LimitOrderData(orderType, stopPrice) ==
    LET data == ("wikifolioSymbol" :> "WF000A") @@ ("underlying" :> "DE0001")
                @@ ("amount" :> 10) @@ ("limitPrice" :> 12)
                @@ ("validUntilDate" :> strftime(ValidUntil))
                @@ ("orderType" :> orderType)
    IN  IF TruthyNum(stopPrice) THEN DictSet(data, "stopPrice", stopPrice[1]) ELSE data

place_limit_order(t) ==
    /\ CanCall(t)
    /\ \E sideArg \in SideInputs, stopPrice \in StopPriceInputs :
         LET side == str_lower(sideArg)
         IN  /\ Enter(t, "place_limit_order",
                      [NoArgs EXCEPT !.side = sideArg, !.stopPrice = stopPrice])
             /\ IF InvalidSide(side) \/ SellWithStop(side, stopPrice)
                  THEN \* logger.error(...); return
                       /\ Leave(t, ReturnNone)
                       /\ UNCHANGED <<reqs, obs>>
                  ELSE \E s \in StatusCodes, id \in OrderIds :
                         LET resp == [status |-> s, body |-> ("orderId" :> id)]
                             data == LimitOrderData(LimitOrderType(side, stopPrice), stopPrice)
                         IN  LastCall(t, Request("POST", "/v1/limitorders",
                                                 AuthHeaders(sessionToken[1]), EmptyDict, data),
                                      resp, ReturnStr(resp.body["orderId"]))
    /\ UNCHANGED <<globals, nextQuote, committed>>

\* data = {...}; if stopPrice: data['stopPrice'] = stopPrice
UpdateData(limitPrice, amount, validUntilDate, stopPrice) ==
    LET data == ("limitPrice" :> limitPrice) @@ ("amount" :> amount)
                @@ ("validUntilDate" :> strftime(validUntilDate))
    IN  IF TruthyNum(stopPrice) THEN DictSet(data, "stopPrice", stopPrice[1]) ELSE data

update_limit_order(t) ==
    /\ CanCall(t)
    /\ \E stopPrice \in StopPriceInputs, resp \in NoContent :
         /\ Enter(t, "update_limit_order", [NoArgs EXCEPT !.stopPrice = stopPrice])
         /\ LastCall(t, Request("PUT", "/v1/limitorders/{orderId}",
                                AuthHeaders(sessionToken[1]), EmptyDict,
                                UpdateData(12, 10, ValidUntil, stopPrice)),
                     resp, ReturnNone)
    /\ UNCHANGED <<globals, nextQuote, committed>>

\* Step 1 of place_quote_order: validation and POST /quotes.
place_quote_order(t) ==
    /\ CanCall(t)
    /\ nextQuote < MaxQuotes
    /\ \E sideArg \in SideInputs :
         LET side == str_lower(sideArg)
             h == AuthHeaders(sessionToken[1])
             url == "/v1/quotes"
         IN  /\ Enter(t, "place_quote_order", [NoArgs EXCEPT !.side = sideArg])
             /\ IF InvalidSide(side)
                  THEN \* logger.error(...); return
                       /\ Leave(t, ReturnNone)
                       /\ UNCHANGED <<reqs, obs, nextQuote>>
                  ELSE \E s \in StatusCodes :
                         LET ok == s < 400
                             resp == [status |-> s,
                                      body |-> ("quoteId" :> IF ok THEN nextQuote + 1 ELSE 0)]
                             data == ("wikifolioSymbol" :> "WF000A") @@ ("underlying" :> "DE0001")
                                     @@ ("amount" :> 10) @@ ("orderType" :> QuoteOrderType(side))
                         IN  /\ Send(t, Request("POST", url, h, EmptyDict, data))
                             /\ obs' = [obs EXCEPT ![t] = ObserveCall(obs[t], 1, resp)]
                             /\ nextQuote' = IF ok THEN nextQuote + 1 ELSE nextQuote
                             /\ IF raise_for_status(resp)
                                  THEN Leave(t, HTTPError(resp, url))
                                  ELSE /\ pc' = [pc EXCEPT ![t] = "commit"]
                                       /\ headers' = [headers EXCEPT ![t] = h]
                                       /\ r' = [r EXCEPT ![t] = resp]
                                       /\ UNCHANGED <<params, acc, outcome>>
    /\ UNCHANGED <<globals, committed>>

\* A variant that keeps the first quoteId the client obtained and commits it
\* again in later invocations.
quote_commit_KeptQuote(t) ==
    /\ pc[t] = "commit"
    /\ \E s \in StatusCodes, id \in OrderIds :
         LET quoteId == IF committed = <<>> THEN r[t].body["quoteId"] ELSE committed[1]
             resp == [status |-> s, body |-> ("orderId" :> id)]
         IN  /\ LastCall(t, Request("POST", "/v1/quoteorders", headers[t], EmptyDict,
                                    "quoteId" :> quoteId),
                         resp, ReturnStr(resp.body["orderId"]))
             /\ committed' = Append(committed, quoteId)
    /\ UNCHANGED <<globals, nextQuote, op, args>>

\* Step 2 of place_quote_order: POST /quoteorders with the quoteId of r.
quote_commit(t) ==
    /\ pc[t] = "commit"
    /\ \E s \in StatusCodes, id \in OrderIds :
         LET quoteId == r[t].body["quoteId"]
             resp == [status |-> s, body |-> ("orderId" :> id)]
         IN  /\ LastCall(t, Request("POST", "/v1/quoteorders", headers[t], EmptyDict,
                                    "quoteId" :> quoteId),
                         resp, ReturnStr(resp.body["orderId"]))
             /\ committed' = Append(committed, quoteId)
    /\ UNCHANGED <<globals, nextQuote, op, args>>

Next ==
    \/ post_init
    \/ \E t \in Callers :
         \/ list_wikifolios(t)
         \/ list_wikifolio_underlyings(t)
         \/ list_wikifolio_orders(t)
         \/ next_page(t)
         \/ get_wikifolio(t)
         \/ get_limit_order(t)
         \/ delete_limit_order(t)
         \/ update_limit_order(t)
         \/ place_limit_order(t)
         \/ place_quote_order(t)
         \/ quote_commit(t)
         \/ logout(t)
         \/ Return(t)

Spec == Init /\ [][Next]_vars

\* Two callers on one client, their listings of wikifolios and of underlyings
\* and their quote orders interleaved request by request, against a venue that answers a page request with the
\* page asked for and an unchanging totalPages, or with a failure.
EchoingVenue == \A u \in Threads : obs[u].sameTotal /\ obs[u].inStep

NextConc ==
    \/ post_init
    \/ \E t \in Threads :
         \/ list_wikifolios(t) /\ EchoingVenue'
         \/ list_wikifolio_underlyings(t) /\ EchoingVenue'
         \/ next_page(t) /\ EchoingVenue'
         \/ place_quote_order(t)
         \/ quote_commit(t)
         \/ Return(t)

SpecConc == Init /\ [][NextConc]_vars

\* =============================================================== properties
ListOps == {"list_wikifolios", "list_wikifolio_underlyings", "list_wikifolio_orders"}

RECURSIVE Concat(_)
Concat(ss) == IF Len(ss) = 0 THEN <<>> ELSE Head(ss) \o Concat(Tail(ss))

\* The first response of the invocation of caller t arrived with a success status.
FirstPageOk(t) == Len(obs[t].served) >= 1

\* Every response so far had a success status, reported the same totalPages
\* k >= 1 and echoed the requested page number.
RegularVenue(t) ==
    /\ obs[t].failedAt = 0
    /\ obs[t].k >= 1
    /\ obs[t].sameTotal
    /\ obs[t].inStep

\* Request i of caller t asks the listing endpoint of its method for page i.
IsPageRequest(t, i) ==
    /\ reqs[t][i].method = "GET"
    /\ reqs[t][i].url = ListUrl(op[t])
    /\ reqs[t][i].params["pageNumber"] = i

\* C1: a listing answered by a venue that reports totalPages = k >= 1 and
\* echoes the requested page number issues exactly k requests, for the pages
\* 1..k in that order, and returns the concatenation of the k pages' results
\* in request order (converted item by item), nothing dropped, reordered or
\* deduplicated.
C1_AllPagesInOrder ==
    \A t \in Threads :
        (op[t] \in ListOps /\ pc[t] = "done" /\ RegularVenue(t)) =>
            /\ Len(reqs[t]) = obs[t].k
            /\ \A i \in 1..Len(reqs[t]) : IsPageRequest(t, i)
            /\ outcome[t] = ReturnList(ConvertAll(ItemFields(op[t]), ItemRequired(op[t]),
                                                  Concat(obs[t].served)))

\* A two-page order listing whose pages overlap has returned.
C1_Witness ==
    \E t \in Threads :
        /\ op[t] = "list_wikifolio_orders" /\ pc[t] = "done" /\ RegularVenue(t)
        /\ obs[t].k = 2
        /\ obs[t].served = <<<<OR2, OR1>>, <<OR1>>>>
        /\ Len(outcome[t].value) = 3

\* C2 as stated: a first response with totalPages = 0, or with an empty
\* results list whatever its totalPages, ends the listing after that one
\* request with the empty sequence.
C2_Original ==
    \A t \in Threads :
        (op[t] \in ListOps /\ FirstPageOk(t)
         /\ (obs[t].k = 0 \/ obs[t].served[1] = <<>>)) =>
            /\ Len(reqs[t]) = 1
            /\ pc[t] = "done"
            /\ outcome[t] = ReturnList(<<>>)

\* C2 as amended: a first response with totalPages = 0 ends the listing after
\* that one request (page 1), and the listing returns exactly the results of
\* that response: the empty sequence when its results list is empty.
C2_ZeroTotalPages ==
    \A t \in Threads :
        (op[t] \in ListOps /\ FirstPageOk(t) /\ obs[t].k = 0) =>
            /\ Len(reqs[t]) = 1
            /\ IsPageRequest(t, 1)
            /\ pc[t] = "done"
            /\ outcome[t] = ReturnList(ConvertAll(ItemFields(op[t]), ItemRequired(op[t]),
                                                  obs[t].served[1]))
            /\ (obs[t].served[1] = <<>> => outcome[t].value = <<>>)

\* A listing whose first response reported no pages and no results has returned.
C2_Witness ==
    \E t \in Threads :
        /\ op[t] \in ListOps /\ pc[t] = "done"
        /\ obs[t].k = 0 /\ obs[t].served = << <<>> >>
        /\ outcome[t] = ReturnList(<<>>)

\* C3: when the request for page i of a listing gets a non-success response,
\* the listing ends by raising, delivers no item of the pages 1..i-1, and
\* requests no page after page i.
C3_FailureDiscardsPages ==
    \A t \in Threads :
        (op[t] \in ListOps /\ obs[t].failedAt > 0) =>
            /\ pc[t] = "done"
            /\ outcome[t].kind = "raise"
            /\ outcome[t].type = "HTTPError"
            /\ outcome[t].value = <<>>
            /\ Len(reqs[t]) = obs[t].failedAt
            /\ \A i \in 1..Len(reqs[t]) : IsPageRequest(t, i)

\* Page 2 of 2 failed after page 1 had delivered items.
C3_Witness ==
    \E t \in Threads :
        /\ op[t] \in ListOps /\ obs[t].failedAt = 2
        /\ obs[t].k = 2 /\ obs[t].sameTotal /\ obs[t].inStep
        /\ Len(obs[t].served) = 1 /\ Len(obs[t].served[1]) = 2

\* C4 as stated: a non-null status filter outside the venue's 17 names does not
\* fail: the listing issues its requests, none of them with a status parameter.
C4_Original ==
    \A t \in Threads :
        (op[t] = "list_wikifolio_orders" /\ pc[t] # "idle"
         /\ args[t].status # None /\ args[t].status[1] \notin OrderStatuses) =>
            /\ outcome[t].kind # "raise" \/ outcome[t].type = "HTTPError"
            /\ Len(reqs[t]) >= 1
            /\ \A i \in 1..Len(reqs[t]) : ~HasKey(reqs[t][i].params, "status")

ValidSide(t) == ~InvalidSide(str_lower(args[t].side))

\* C5 as stated: place_limit_order and place_quote_order lower-case the side;
\* a side that is then neither buy nor sell ends in a ValidationError, not in
\* a normal return, with no request issued; a side that is then buy or sell
\* is not rejected by the side check.
C5_Original ==
    \A t \in Threads :
        (op[t] \in {"place_limit_order", "place_quote_order"} /\ pc[t] # "idle") =>
            /\ ~ValidSide(t) =>
                  /\ reqs[t] = <<>>
                  /\ outcome[t].kind = "raise"
                  /\ outcome[t].type = "ValidationError"
            /\ (ValidSide(t) /\ (op[t] = "place_quote_order" \/ args[t].stopPrice = None)) =>
                  Len(reqs[t]) >= 1

\* C6 as stated: place_limit_order with a side that lower-cases to sell and
\* any supplied stopPrice, zero included, ends in a ValidationError with no
\* request issued.
C6_Original ==
    \A t \in Threads :
        (op[t] = "place_limit_order" /\ pc[t] # "idle"
         /\ str_lower(args[t].side) = SELL /\ args[t].stopPrice # None) =>
            /\ reqs[t] = <<>>
            /\ outcome[t].kind = "raise"
            /\ outcome[t].type = "ValidationError"

\* The orderType the claim derives from the side and from whether a stopPrice
\* was supplied.
ClaimedLimitOrderType(side, stopPrice) ==
    IF side = BUY /\ stopPrice # None THEN "BuyStopLimit"
    ELSE IF side = BUY THEN "BuyLimit"
    ELSE "SellLimit"

\* C7 as stated: the orderType of every POST /limitorders is BuyStopLimit for a
\* buy with a stopPrice supplied (any non-null value), BuyLimit for a buy
\* without one and SellLimit for a sell; that of every POST /quotes is Buy for a
\* buy and Sell for a sell.
C7_Original ==
    \A t \in Threads : \A i \in 1..Len(reqs[t]) :
        /\ reqs[t][i].url = "/v1/limitorders" =>
              reqs[t][i].json["orderType"] =
                  ClaimedLimitOrderType(str_lower(args[t].side), args[t].stopPrice)
        /\ reqs[t][i].url = "/v1/quotes" =>
              reqs[t][i].json["orderType"] =
                  (IF str_lower(args[t].side) = BUY THEN "Buy" ELSE "Sell")

IsPost(q, url) == q.method = "POST" /\ q.url = url

\* C8: place_quote_order with a valid side issues POST /quotes first and
\* POST /quoteorders second and nothing else; the second is sent only after
\* the first succeeded; when both succeed it returns the orderId of the
\* second response; when the quote request fails it stops after one request.
C8_QuoteThenCommit ==
    \A t \in Threads :
        (op[t] = "place_quote_order" /\ pc[t] # "idle" /\ ValidSide(t)) =>
            /\ Len(reqs[t]) \in {1, 2}
            /\ IsPost(reqs[t][1], "/v1/quotes")
            /\ Len(reqs[t]) = 2 =>
                  /\ IsPost(reqs[t][2], "/v1/quoteorders")
                  /\ obs[t].failedAt # 1
                  /\ HasKey(obs[t].served[1], "quoteId")
            /\ obs[t].failedAt = 1 => (pc[t] = "done" /\ Len(reqs[t]) = 1)
            /\ (pc[t] = "done" /\ obs[t].failedAt = 0) =>
                  /\ Len(reqs[t]) = 2
                  /\ outcome[t] = ReturnStr(obs[t].served[2]["orderId"])

\* A quote order whose two requests both succeeded has returned.
C8_Witness ==
    \E t \in Threads :
        /\ op[t] = "place_quote_order" /\ pc[t] = "done" /\ obs[t].failedAt = 0
        /\ Len(reqs[t]) = 2 /\ outcome[t] = ReturnStr("ord-2")

\* C9: when the quote request succeeds and the commit request fails,
\* place_quote_order ends by raising the error of the commit request, which
\* differs from every error of a failed quote request; it returns no orderId
\* and issues nothing after the failed commit.
C9_CommitFailure ==
    \A t \in Threads :
        (op[t] = "place_quote_order" /\ obs[t].failedAt = 2) =>
            /\ pc[t] = "done"
            /\ outcome[t].kind = "raise"
            /\ outcome[t].value = <<>>
            /\ outcome[t].url = "/v1/quoteorders"
            /\ \A s \in StatusCodes : outcome[t] # HTTPError([status |-> s], "/v1/quotes")
            /\ Len(reqs[t]) = 2
            /\ IsPost(reqs[t][1], "/v1/quotes")
            /\ IsPost(reqs[t][2], "/v1/quoteorders")

\* The commit request of a quote order failed after its quote had succeeded.
C9_Witness ==
    \E t \in Threads :
        /\ op[t] = "place_quote_order" /\ obs[t].failedAt = 2
        /\ Len(obs[t].served) = 1 /\ obs[t].served[1]["quoteId"] >= 1
        /\ outcome[t].kind = "raise"

\* The request a step adds to the log of caller t.
Issued(t) == reqs'[t][Len(reqs'[t])]

\* C10 as stated: every authenticated request carries the token stored at
\* construction, and none is issued with a token that a successful logout of
\* this client has already terminated.
C10_Original ==
    [][\A t \in Threads :
          Len(reqs'[t]) > Len(reqs[t]) =>
              /\ Issued(t).headers["sessionToken"] = sessionToken[1]
              /\ Issued(t).headers["sessionToken"] \notin terminated]_vars

\* C11 as stated: a logout invoked after a successful logout of the same
\* client never completes successfully: it ends by raising.
C11_Original ==
    [][\A t \in Threads :
          (pc[t] = "idle" /\ op'[t] = "logout" /\ sessionToken # None
           /\ sessionToken[1] \in terminated) =>
              outcome'[t].kind = "raise"]_vars

\* C12: __post_init__ issues exactly one request, POST /sessions with the two
\* credentials; when the venue answers it with a non-success status the
\* construction ends by raising, no token is stored and no caller ever issues
\* a request; when it answers with success the stored token is the
\* sessionToken of that response.
C12_Construction ==
    /\ client = "new" => (ctorReqs = <<>> /\ sessionToken = None)
    /\ client # "new" =>
          /\ ctorReqs = <<Request("POST", "/v1/sessions", CredHeaders, EmptyDict, EmptyDict)>>
          /\ ctorResp.status >= 400 =>
                /\ client = "failed"
                /\ ctorOutcome.kind = "raise"
                /\ sessionToken = None
                /\ \A t \in Threads : reqs[t] = <<>> /\ pc[t] = "idle"
          /\ ctorResp.status < 400 =>
                /\ client = "ready"
                /\ ctorOutcome = ReturnNone
                /\ sessionToken = Some(ctorResp.body["sessionToken"])

\* A construction the venue accepted with the second token, after which a
\* caller has issued a request carrying it.
C12_Witness ==
    /\ client = "ready" /\ ctorResp.status = 200
    /\ ctorResp.body["sessionToken"] = "tokB" /\ sessionToken = Some("tokB")
    /\ \E t \in Threads : Len(reqs[t]) >= 1

\* The invocation of caller t ran into the code's own rejection of its
\* arguments (the branches that log an error).
Rejected(t) ==
    /\ op[t] \in {"place_limit_order", "place_quote_order"}
    /\ \/ InvalidSide(str_lower(args[t].side))
       \/ op[t] = "place_limit_order"
          /\ SellWithStop(str_lower(args[t].side), args[t].stopPrice)

\* The part of C13 about requests: no request is issued twice within an
\* invocation, every response but a failed one is followed by the code of
\* the method, and a failed response is the last thing the invocation sees:
\* it ends by raising the error of that response, with no request after it.
C13_NoRetry ==
    \A t \in Threads :
        /\ \A i, j \in 1..Len(reqs[t]) : i # j => reqs[t][i] # reqs[t][j]
        /\ obs[t].failedAt > 0 =>
              /\ obs[t].failedAt = Len(reqs[t])
              /\ pc[t] = "done"
              /\ outcome[t].kind = "raise"
              /\ outcome[t].url = reqs[t][Len(reqs[t])].url
        /\ obs[t].failedAt = 0 => Len(obs[t].served) = Len(reqs[t])

\* C13 as stated: no operation retries (each request at most once, the first
\* non-success response ends the invocation with a failure, no request after
\* it), and no failure, be it a rejected argument or a failed response, is
\* turned into a normal return value.
C13_Original ==
    /\ C13_NoRetry
    /\ \A t \in Threads :
          (pc[t] = "done" /\ (obs[t].failedAt > 0 \/ Rejected(t))) =>
              outcome[t].kind = "raise"

\* The name under which the OrderStatus record holds a mutable field of the
\* order, and under which an order response body carries it.
RecordField(f) ==
    CASE f = "limitPrice" -> "limit" [] f = "stopPrice" -> "stop" [] OTHER -> f
MutableFields == {"limitPrice", "amount", "validUntilDate", "stopPrice"}

\* A get_limit_order of caller t that returned its record.
GotOrder(t) ==
    op[t] = "get_limit_order" /\ pc[t] = "done" /\ outcome[t].kind = "return"

\* An order response body that carries the mutable fields, the stop price
\* being optional.
WellFormedOrder(body) ==
    HasKey(body, "limit") /\ HasKey(body, "amount") /\ HasKey(body, "validUntilDate")

\* The record built from a well-formed order body holds the four fields.
C14_RecordHoldsFields ==
    \A t \in Threads :
        (GotOrder(t) /\ WellFormedOrder(obs[t].served[1])) =>
            \A f \in MutableFields : HasKey(outcome[t].value[1], RecordField(f))

\* The body update_limit_order sends for the limit, amount and stop price of
\* the record (and the order's date) has the values of the response body: a
\* stop price the response carries is sent with its value, one it does not
\* carry is omitted.
C14_ValuesRoundTrip ==
    \A t \in Threads :
        (GotOrder(t) /\ WellFormedOrder(obs[t].served[1])) =>
            LET body == obs[t].served[1]
                rec == outcome[t].value[1]
                data == UpdateData(rec["limit"][1], rec["amount"], ValidUntil, rec["stop"])
            IN  /\ data["limitPrice"] = body["limit"]
                /\ data["amount"] = body["amount"]
                /\ data["validUntilDate"] = body["validUntilDate"]
                /\ HasKey(data, "stopPrice") = HasKey(body, "stop")
                /\ HasKey(body, "stop") => data["stopPrice"] = body["stop"]

\* C14 as stated: the OrderStatus record built from a well-formed order
\* response body holds limitPrice, amount, validUntilDate and stopPrice, and
\* passing the record's values to update_limit_order sends a body whose four
\* field values equal those of the response body, a stop price of zero
\* included.
C14_Original == C14_RecordHoldsFields /\ C14_ValuesRoundTrip

\* The venue answered every request of the listing of caller t so far with
\* success and with one and the same totalPages.
FixedTotal(t) ==
    /\ op[t] \in ListOps /\ pc[t] \in {"paging", "done"}
    /\ FirstPageOk(t) /\ obs[t].failedAt = 0 /\ obs[t].sameTotal

Max(a, b) == IF a >= b THEN a ELSE b

\* C15 as stated: against a venue that reports a fixed totalPages = k, whatever
\* pageNumber it reports (staying at 1, lagging, exceeding k), a listing
\* never issues more than max(k, 1) requests.
C15_Original ==
    \A t \in Threads :
        FixedTotal(t) => Len(reqs[t]) <= Max(obs[t].k, 1)

\* C15, amended: against a venue that reports a fixed totalPages = k and
\* never a pageNumber below the page requested, a listing that goes on has
\* issued fewer than k requests, so it ends after at most max(k, 1) of them.
C15_BoundedWhenNoLag ==
    \A t \in Threads :
        (FixedTotal(t) /\ obs[t].noLag) =>
            /\ Len(reqs[t]) <= Max(obs[t].k, 1)
            /\ pc[t] = "paging" => Len(reqs[t]) < obs[t].k

\* A listing that ended at the bound: two pages of two, none lagging.
C15_Witness ==
    \E t \in Threads :
        /\ FixedTotal(t) /\ obs[t].noLag /\ pc[t] = "done"
        /\ obs[t].k = 2 /\ Len(reqs[t]) = 2 /\ outcome[t].kind = "return"

\* C16: once the construction has stored the session token no operation,
\* whether it succeeds or fails, changes it: the stored token stays the one
\* the construction response carried, and every request of every invocation,
\* the first as well as the n-th, carries that token.
C16_TokenFrame ==
    client = "ready" =>
        /\ sessionToken = Some(ctorResp.body["sessionToken"])
        /\ \A t \in Threads : \A i \in 1..Len(reqs[t]) :
              reqs[t][i].headers["sessionToken"] = ctorResp.body["sessionToken"]

\* After a logout that succeeded, a listing whose first page arrived and whose
\* second request failed: the second request still carried the token.
C16_Witness ==
    /\ client = "ready" /\ terminated # {}
    /\ \E t \in Threads :
          /\ op[t] \in ListOps /\ Len(reqs[t]) = 2 /\ obs[t].failedAt = 2
          /\ reqs[t][2].headers["sessionToken"] = sessionToken[1]

\* The query parameters of request i of a listing run on its own.
AloneParams(t, i) ==
    IF op[t] = "list_wikifolio_orders" /\ TruthyStr(args[t].status)
      THEN ("pageNumber" :> i) @@ ("status" :> args[t].status[1])
      ELSE "pageNumber" :> i

\* The listing of caller t does what it does when run on its own: request i
\* asks its own endpoint for page i with its own filter, the pages collected
\* so far are the ones served to this caller, and the result is their
\* concatenation.
ListingAsAlone(t) ==
    /\ \A i \in 1..Len(reqs[t]) :
          reqs[t][i] = Request("GET", ListUrl(op[t]), AuthHeaders(sessionToken[1]),
                               AloneParams(t, i), EmptyDict)
    /\ Len(reqs[t]) = Len(obs[t].served) + (IF obs[t].failedAt > 0 THEN 1 ELSE 0)
    /\ pc[t] = "paging" =>
          /\ acc[t] = Concat(obs[t].served)
          /\ params[t] = AloneParams(t, Len(reqs[t]))
    /\ (pc[t] = "done" /\ outcome[t].kind = "return") =>
          outcome[t] = ReturnList(ConvertAll(ItemFields(op[t]), ItemRequired(op[t]),
                                             Concat(obs[t].served)))

\* The quote order of caller t does what it does when run on its own: it
\* asks for a quote for its own side, commits the quoteId served to this
\* caller and returns the orderId served to this caller.
QuoteOrderAsAlone(t) ==
    /\ Len(reqs[t]) <= 2
    /\ Len(reqs[t]) >= 1 =>
          /\ IsPost(reqs[t][1], "/v1/quotes")
          /\ reqs[t][1].json["orderType"] = QuoteOrderType(str_lower(args[t].side))
    /\ Len(reqs[t]) = 2 =>
          /\ IsPost(reqs[t][2], "/v1/quoteorders")
          /\ reqs[t][2].json = ("quoteId" :> obs[t].served[1]["quoteId"])
    /\ pc[t] = "commit" => r[t].body = obs[t].served[1]
    /\ (pc[t] = "done" /\ outcome[t].kind = "return" /\ Len(reqs[t]) = 2) =>
          outcome[t] = ReturnStr(obs[t].served[2]["orderId"])

\* C17: with the invocations of two callers on one client interleaved, each
\* listing and each quote order issues the requests and returns the result
\* it issues and returns when run on its own; the page counter, the pages
\* collected and the quoteId of one invocation are never those of the other.
C17_NoInterference ==
    /\ \A t \in Threads :
          /\ (op[t] \in ListOps /\ pc[t] # "idle") => ListingAsAlone(t)
          /\ (op[t] = "place_quote_order" /\ pc[t] # "idle") => QuoteOrderAsAlone(t)
    /\ \A t, u \in Threads :
          (t # u /\ pc[t] = "commit" /\ pc[u] = "commit") =>
              r[t].body["quoteId"] # r[u].body["quoteId"]

\* Both callers in mid-invocation: one between two pages of a listing with a
\* page collected, the other between the quote and the commit.
C17_Witness ==
    /\ pc[1] = "paging" /\ acc[1] # <<>>
    /\ pc[2] = "commit"

\* C18: every POST /quoteorders carries the quoteId that the POST /quotes of
\* the same invocation returned and nothing else; over all invocations, the
\* interleaved and the successive ones, no quoteId is committed twice, and a
\* quote an invocation holds between its two requests has been committed by
\* no other invocation.
C18_QuoteConsumedOnce ==
    /\ \A t \in Threads : \A i \in 1..Len(reqs[t]) :
          reqs[t][i].url = "/v1/quoteorders" =>
              /\ i = 2 /\ op[t] = "place_quote_order"
              /\ DOMAIN reqs[t][i].json = {"quoteId"}
              /\ reqs[t][i].json["quoteId"] = obs[t].served[1]["quoteId"]
              /\ \E j \in 1..Len(committed) : committed[j] = reqs[t][i].json["quoteId"]
    /\ \A i, j \in 1..Len(committed) : i # j => committed[i] # committed[j]
    /\ \A i \in 1..Len(committed) : committed[i] \in 1..nextQuote
    /\ \A t \in Threads :
          pc[t] = "commit" =>
              \A j \in 1..Len(committed) : committed[j] # r[t].body["quoteId"]
    /\ \A t \in Threads : pc[t] \in {"idle", "done"} => r[t] = NoResponse

\* Two quote orders have been committed, the later one by an invocation that
\* started after an earlier one of the same caller had ended.
C18_Witness ==
    /\ Len(committed) = 2
    /\ \E t \in Threads :
          /\ op[t] = "place_quote_order" /\ pc[t] = "done" /\ Len(reqs[t]) = 2
          /\ reqs[t][2].json["quoteId"] = 2
          /\ \A u \in Threads \ {t} : op[u] = ""

\* A list_wikifolio_orders of caller t whose status argument is one of the
\* venue's status names.
FilteredListing(t) ==
    /\ op[t] = "list_wikifolio_orders" /\ pc[t] # "idle"
    /\ TruthyStr(args[t].status) /\ args[t].status[1] \in OrderStatuses

\* C19: in a list_wikifolio_orders with a recognized status S every page
\* request carries status = S, and each request after the first is the one
\* before it with pageNumber, and nothing else, changed: increased by one.
C19_FilterOnEveryPage ==
    \A t \in Threads :
        FilteredListing(t) =>
            /\ \A i \in 1..Len(reqs[t]) :
                  /\ HasKey(reqs[t][i].params, "status")
                  /\ reqs[t][i].params["status"] = args[t].status[1]
            /\ \A i \in 1..(Len(reqs[t]) - 1) :
                  reqs[t][i + 1] =
                      [reqs[t][i] EXCEPT !.params["pageNumber"] = @ + 1]

\* A listing filtered by Executed that has asked for a second page.
C19_Witness ==
    \E t \in Threads :
        /\ FilteredListing(t) /\ args[t].status = Some("Executed")
        /\ Len(reqs[t]) >= 2 /\ reqs[t][2].params["status"] = "Executed"

\* C20: the body of every POST /limitorders holds an orderType that is one of
\* BuyStopLimit, BuyLimit and SellLimit, and holds a stopPrice exactly when
\* that orderType is BuyStopLimit, whatever side and stopPrice (none, zero,
\* positive) the caller passed.
C20_StopPriceIffStopLimit ==
    \A t \in Threads : \A i \in 1..Len(reqs[t]) :
        reqs[t][i].url = "/v1/limitorders" =>
            /\ HasKey(reqs[t][i].json, "orderType")
            /\ reqs[t][i].json["orderType"] \in {"BuyStopLimit", "BuyLimit", "SellLimit"}
            /\ HasKey(reqs[t][i].json, "stopPrice") =
                  (reqs[t][i].json["orderType"] = "BuyStopLimit")

\* A sell with a stopPrice of zero went out, as a SellLimit without stopPrice.
C20_Witness ==
    \E t \in Threads :
        /\ op[t] = "place_limit_order" /\ Len(reqs[t]) = 1
        /\ str_lower(args[t].side) = SELL /\ args[t].stopPrice = Some(0)
        /\ reqs[t][1].json["orderType"] = "SellLimit"

====
